---- MODULE Spec2Model ----
(***************************************************************************)
(* socket2em: a line-delimited JSON request/response server (server.go,    *)
(* models.go).  The model covers Server.RegisterMethod, Server.Start (the  *)
(* accept loop), Server.tcpClientHandler (the per-connection read and      *)
(* dispatch loop), Server.closeClient, Server.Help, the response writers   *)
(* and Server.Broadcast.                                                   *)
(*                                                                         *)
(* A line of text is a sequence of one-character strings; what the server  *)
(* writes is a sequence of JSON tokens, so that prefix matching, decoding  *)
(* and the shape of every response are computed rather than assumed.       *)
(***************************************************************************)
EXTENDS Integers, Sequences, FiniteSets, TLC

(***************************************************************************)
(* Bounds of the model.                                                    *)
(***************************************************************************)
\* connections the listener accepts in Spec (concurrency of the handlers)
MaxConns == 2
\* connections the listener accepts in ProtoSpec (the line protocol)
ProtoConns == 1
\* Broadcast calls the host makes
MaxBroadcasts == 1
\* lines a client sends on one connection in OrderSpec
MaxLines == 2

MaxSock == IF MaxConns > ProtoConns THEN MaxConns ELSE ProtoConns
Socks == 1 .. MaxSock

(***************************************************************************)
(* Tokens of the text written to a connection.                             *)
(***************************************************************************)
\* a punctuation character of JSON
P(x) == [t |-> "p", v |-> x]
\* a double-quoted string
S(x) == [t |-> "s", v |-> x]
\* the text of a JSON value copied through verbatim (json.RawMessage)
R(x) == [t |-> "raw", v |-> x]
\* the "\n" that ends a written line
NL == [t |-> "nl", v |-> ""]

(***************************************************************************)
(* Lines a client sends.  A text line carries its characters; a line       *)
(* holding a JSON object begins with "{" and carries the value of its      *)
(* "method" member ("" when the member is absent or empty) and at most one *)
(* further member (key "" when there is none).                             *)
(***************************************************************************)
T(chars) == [kind |-> "text", text |-> chars, method |-> "", key |-> "", val |-> ""]
J(m, k, v) == [kind |-> "json", text |-> <<"{">>, method |-> m, key |-> k, val |-> v]

Empty == T(<< >>)
help == <<"h", "e", "l", "p">>
quit == <<"q", "u", "i", "t">>
bye == <<"b", "y", "e">>
exit == <<"e", "x", "i", "t">>

\* the payload values a client sends
Values == {"{\"a\":1}", "null"}

\* the handlers the host registers: Echo answers with the envelope's Data
\* through SendResponseFromStruct, Pong answers "pong" through HandleSuccess
Functions == {"Echo", "Pong"}

ProtoNames == {"ping", "echo"}
\* what the host of ProtoSpec registers
ProtoMethods == {<<"ping", "Pong">>, <<"echo", "Echo">>}

\* the lines of Spec: a control word that ends the loop, one request
CoreLines == {T(quit), J("ping", "", "")}

\* the lines of OrderSpec: a registered method and an unknown one
OrderLines == {J("ping", "", ""), J("missing", "", "")}
\* what the host of OrderSpec registers
OrderMethods == {<<"ping", "Pong">>}

\* the lines of ProtoSpec
TextLines ==
    { Empty, T(help), T(help \o <<"x">>), T(<<"H", "e", "l", "p">>),
      T(quit), T(quit \o <<"x">>), T(<<"Q", "u", "i", "t">>),
      T(bye), T(exit), T(<<"b", "y">>),
      T(<<"n", "o", "t", "-", "j", "s", "o", "n">>),
      T(<<"n", "u", "l", "l">>) }
JsonLines ==
    { J(m, "", "") : m \in {"", "help", "ping", "echo", "missing"} }
      \cup { J("echo", k, v) : k \in {"payload", "data", "Data"}, v \in Values }
AllLines == TextLines \cup JsonLines

(***************************************************************************)
(* strings.HasPrefix                                                       *)
(***************************************************************************)
HasPrefix(s, prefix) ==
    /\ Len(prefix) <= Len(s)
    /\ \A i \in 1 .. Len(prefix) : s[i] = prefix[i]

(***************************************************************************)
(* json.Unmarshal([]byte(message), &req) with req a Message{Method, Data}. *)
(* The tag of Data, `json:data`, is not a well-formed struct tag, so the   *)
(* member is matched by the field's name, Data, ignoring case; Method is   *)
(* matched by its tag "method".  The literal null decodes to the zero      *)
(* Message without an error; any other text that is not an object fails.   *)
(***************************************************************************)
NoData == "<nil>"

FoldKey(k) == IF k \in {"data", "Data", "DATA"} THEN "data" ELSE k

\* the member is looked up under "payload"
DataKeyPayload == "payload"

DataKey == "data"

Unmarshal(line) ==
    IF line.kind = "json"
    THEN [err |-> "", Method |-> line.method,
          Data |-> IF FoldKey(line.key) = DataKey THEN line.val ELSE NoData]
    ELSE IF line.text = <<"n", "u", "l", "l">>
         THEN [err |-> "", Method |-> "", Data |-> NoData]
         ELSE [err |-> "invalid character", Method |-> "", Data |-> NoData]

(***************************************************************************)
(* The response writers.                                                   *)
(***************************************************************************)
\* Server.HandleError
HandleError(err) ==
    << P("{"), S("status"), P(":"), S("error"), P(","),
       S("error"), P(":"), S(err), P("}"), NL >>

\* Server.HandleSuccess: data is spliced in as it is
HandleSuccess(data) ==
    << P("{"), S("status"), P(":"), S("ok"), P(","), S("data"), P(":") >>
       \o data \o << P("}"), NL >>

\* the response tcpClientHandler builds itself when json.Unmarshal fails
DecodeFailure(err) ==
    << P("{"), S("status"), P(":"), S("error"), P(","),
       S("error"), P(":"), S(err), P(","), S(""), P("}"), NL >>

\* json.Marshal of a json.RawMessage: a nil message marshals as null
Marshal(data) == IF data = NoData THEN << R("null") >> ELSE << R(data) >>

\* Server.SendResponseFromStruct (json.Marshal of a RawMessage taken from a
\* decoded line does not fail)
SendResponseFromStruct(data) == HandleSuccess(Marshal(data))

RECURSIVE Join(_)
\* strings.Join(methods, `", "`) inside `["%v"]`: every name quoted
Join(q) ==
    IF Len(q) = 0 THEN << >>
    ELSE IF Len(q) = 1 THEN << S(q[1]) >>
    ELSE << S(q[1]), P(",") >> \o Join(Tail(q))

\* the built-in name is left out of the list
HelpNoBuiltin(order) ==
    << P("{"), S("methods"), P(":"), P("[") >> \o Join(order) \o << P("]"), P("}") >>

\* Server.Help: "help", then the keys of MethodHandlers in the order the
\* range over the map produces them
Help(order) ==
    << P("{"), S("methods"), P(":"), P("[") >>
       \o Join(<<"help">> \o order) \o << P("]"), P("}") >>

\* the orders in which a range over a map with key set K may produce the keys
Orders(K) ==
    { q \in [1 .. Cardinality(K) -> K] : \A k \in K : \E i \in DOMAIN q : q[i] = k }

\* what a registered handler writes for a request
Respond(function, req) ==
    IF function = "Echo" THEN SendResponseFromStruct(req.Data)
    ELSE HandleSuccess(<< S("pong") >>)


(***************************************************************************)
(* State.                                                                  *)
(***************************************************************************)
VARIABLES
    MethodHandlers,  \* Server.MethodHandlers: method name -> registered function
    Clients,         \* Server.Clients: identifier -> connection
    nilMaps,         \* which of the two maps are still nil (never made)
    NumClients,      \* Server.NumClients
    OnDisconnect,    \* Server.OnDisconnect: "nil" or "set"
    guard,           \* Server.guard: 0 free, -1 held by Start, s held by handler s
    lastRegister,    \* the last RegisterMethod call and what it returned
    apc,             \* where Start is
    aconn,           \* Start's conn: the connection just accepted (0: none)
    counter,         \* Start's counter
    naccepted,       \* connections l.Accept has returned so far
    pc,              \* where the handler goroutine of each connection is
    idx,             \* tcpClientHandler's idx of each connection
    tmp,             \* the value of NumClients a handler read for ++ or --
    closed,          \* conn.Close() has run on the connection
    cur,             \* the handler's message: the line it last read, if any
    wrote,           \* the lines the handler wrote since it read cur
    calls,           \* the registered functions invoked since it read cur
                     \* (cur, wrote and calls end with the handler's loop)
    closes,          \* how often closeClient was entered for the connection
    notified,        \* how often OnDisconnect was called with each address
    bpc,             \* where the host's Broadcast call is
    bmsg,            \* Broadcast's message
    visited,         \* the identifiers the range has produced so far
    stable,          \* connections in Clients ever since the range began
    delivered,       \* lines the running Broadcast has written, per connection
    bcalls,          \* Broadcast calls made
    fatal,           \* the runtime has aborted the process
    sent,            \* the lines a client has sent on the connection, in order
    inbox,           \* the lines sent and not yet read by the handler
    log,             \* the lines the handler has dispatched, in order
    failed           \* connections on which a read failed with an error that
                     \* is not io.EOF

hostVars == << MethodHandlers, nilMaps, lastRegister, OnDisconnect >>
acceptVars == << apc, aconn, counter, naccepted >>
lineVars == << cur, wrote, calls >>
closeVars == << closed, closes, notified >>
bcastVars == << bpc, bmsg, visited, delivered, bcalls >>
streamVars == << sent, inbox, log, failed >>
vars == << hostVars, acceptVars, Clients, NumClients, guard, pc, idx, tmp,
           lineVars, closeVars, bcastVars, stable, fatal, streamVars >>

EmptyMap == [k \in {} |-> k]
Put(f, k, v) == [x \in DOMAIN f \cup {k} |-> IF x = k THEN v ELSE f[x]]
Delete(f, k) == [x \in DOMAIN f \ {k} |-> f[x]]

\* conn.RemoteAddr().String(): one address per connection
RemoteAddr(s) == 100 + s
Addrs == { RemoteAddr(s) : s \in Socks }

\* the process runs until the runtime aborts it
Running == ~fatal

Init ==
    /\ MethodHandlers = EmptyMap
    /\ Clients = EmptyMap
    /\ nilMaps = {"MethodHandlers", "Clients"}
    /\ NumClients = 0
    /\ OnDisconnect \in {"nil", "set"}
    /\ guard = 0
    /\ lastRegister = [method |-> "", function |-> "", err |-> ""]
    /\ apc = "idle"
    /\ aconn = 0
    /\ counter = 0
    /\ naccepted = 0
    /\ pc = [s \in Socks |-> "free"]
    /\ idx = [s \in Socks |-> 0]
    /\ tmp = [s \in Socks |-> 0]
    /\ closed = [s \in Socks |-> FALSE]
    /\ cur = [s \in Socks |-> << >>]
    /\ wrote = [s \in Socks |-> << >>]
    /\ calls = [s \in Socks |-> << >>]
    /\ closes = [s \in Socks |-> 0]
    /\ notified = [a \in Addrs |-> 0]
    /\ bpc = "idle"
    /\ bmsg = ""
    /\ visited = {}
    /\ stable = {}
    /\ delivered = [s \in Socks |-> << >>]
    /\ bcalls = 0
    /\ fatal = FALSE
    /\ sent = [s \in Socks |-> << >>]
    /\ inbox = [s \in Socks |-> << >>]
    /\ log = [s \in Socks |-> << >>]
    /\ failed = {}

(***************************************************************************)
(* The host: RegisterMethod, then Start.  All registrations are made       *)
(* before Start is called (the method table is read without a lock by the  *)
(* handlers, so the host may not register while the server runs).          *)
(***************************************************************************)
\* Server.init: make the maps that are still nil
init == nilMaps' = {}

\* no name is refused
ReservedNever(method) == FALSE

\* the reserved method name RegisterMethod refuses
Reserved(method) == "help" = method

RegisterMethod(method, function) ==
    /\ Running
    /\ apc = "idle"
    /\ init
    /\ IF Reserved(method)
       THEN /\ MethodHandlers' = MethodHandlers
            /\ lastRegister' = [method |-> method, function |-> function,
                                err |-> "Method not allowed"]
       ELSE /\ MethodHandlers' = Put(MethodHandlers, method, function)
            /\ lastRegister' = [method |-> method, function |-> function,
                                err |-> "nil"]
    /\ UNCHANGED << OnDisconnect, streamVars, acceptVars, Clients, NumClients,
                    guard, pc,
                    idx, tmp, lineVars, closeVars, bcastVars, stable, fatal >>

\* Server.Start up to the accept loop: net.Listen succeeds, or fails and
\* Start panics
Start ==
    /\ Running
    /\ apc = "idle"
    /\ init
    /\ counter' = 0
    /\ NumClients' = 0
    /\ \E listening \in BOOLEAN : apc' = IF listening THEN "accept" ELSE "panic"
    /\ UNCHANGED << MethodHandlers, lastRegister, OnDisconnect, streamVars,
                    aconn, naccepted,
                    Clients, guard, pc, idx, tmp, lineVars, closeVars, bcastVars,
                    stable, fatal >>

(***************************************************************************)
(* A write to the map Clients while Broadcast ranges over it.  Broadcast   *)
(* takes no lock, so the two are unsynchronised: the Go runtime either     *)
(* lets both go on or aborts the process ("concurrent map iteration and    *)
(* map write").                                                            *)
(***************************************************************************)
MapWrite(gone) ==
    /\ IF bpc = "iter" THEN fatal' \in BOOLEAN ELSE fatal' = fatal
    /\ stable' = IF bpc = "iter" THEN stable \ gone ELSE stable

(***************************************************************************)
(* Server.Start, the accept loop.                                          *)
(***************************************************************************)
\* the handler is started as soon as the connection is accepted, before
\* the connection is put into Clients
AcceptSpawnFirst(max) ==
    /\ Running
    /\ apc = "accept"
    /\ naccepted < max
    /\ naccepted' = naccepted + 1
    /\ aconn' = naccepted + 1
    /\ pc' = [pc EXCEPT ![naccepted + 1] = "start"]
    /\ apc' = "lock"
    /\ UNCHANGED << hostVars, streamVars, counter, Clients, NumClients, guard,
                    idx, tmp, lineVars, closeVars, bcastVars, stable, fatal >>

\* conn, err := l.Accept() with err == nil
Accept(max) ==
    /\ Running
    /\ apc = "accept"
    /\ naccepted < max
    /\ naccepted' = naccepted + 1
    /\ aconn' = naccepted + 1
    /\ pc' = [pc EXCEPT ![naccepted + 1] = "accepted"]
    /\ apc' = "lock"
    /\ UNCHANGED << hostVars, streamVars, counter, Clients, NumClients, guard, idx, tmp,
                    lineVars, closeVars, bcastVars, stable, fatal >>

\* an accept error ends the process, and every handler with it
AcceptErrorExits ==
    /\ Running
    /\ apc = "accept"
    /\ apc' = "returned"
    /\ fatal' = TRUE
    /\ UNCHANGED << hostVars, streamVars, aconn, counter, naccepted, Clients,
                    NumClients, guard, pc, idx, tmp, lineVars, closeVars,
                    bcastVars, stable >>

\* l.Accept() fails: Start logs and returns
AcceptError ==
    /\ Running
    /\ apc = "accept"
    /\ apc' = "returned"
    /\ UNCHANGED << hostVars, streamVars, aconn, counter, naccepted, Clients, NumClients,
                    guard, pc, idx, tmp, lineVars, closeVars, bcastVars, stable,
                    fatal >>

\* the smallest identifier that is free is taken again
NextIdLowestFree(c) ==
    CHOOSE i \in 1 .. MaxSock + 1 :
        i \notin DOMAIN Clients /\ \A j \in 1 .. i - 1 : j \in DOMAIN Clients

\* counter++
NextId(c) == c + 1

\* self.guard.Lock(); counter++; self.Clients[counter] = conn
AcceptInsert ==
    /\ Running
    /\ apc = "lock"
    /\ guard = 0
    /\ guard' = -1
    /\ counter' = NextId(counter)
    /\ Clients' = Put(Clients, counter', aconn)
    /\ MapWrite(IF counter' \in DOMAIN Clients THEN {Clients[counter']}
                ELSE {})
    /\ apc' = "unlock"
    /\ UNCHANGED << hostVars, streamVars, aconn, naccepted, NumClients, pc, idx, tmp,
                    lineVars, closeVars, bcastVars >>

\* self.guard.Unlock(); go self.tcpClientHandler(conn, counter)
AcceptUnlock ==
    /\ Running
    /\ apc = "unlock"
    /\ guard' = 0
    /\ pc' = [pc EXCEPT ![aconn] = "start"]
    /\ idx' = [idx EXCEPT ![aconn] = counter]
    /\ aconn' = 0
    /\ apc' = "accept"
    /\ UNCHANGED << hostVars, streamVars, counter, naccepted, Clients, NumClients, tmp,
                    lineVars, closeVars, bcastVars, stable, fatal >>

\* Server.GetNumClients
GetNumClients == NumClients

(***************************************************************************)
(* Server.tcpClientHandler.  self.NumClients++ is a read and a write with  *)
(* no lock around them.                                                    *)
(***************************************************************************)
IncRead(s) ==
    /\ Running
    /\ pc[s] = "start"
    /\ tmp' = [tmp EXCEPT ![s] = NumClients]
    /\ pc' = [pc EXCEPT ![s] = "inc"]
    /\ UNCHANGED << hostVars, streamVars, acceptVars, Clients, NumClients, guard, idx,
                    lineVars, closeVars, bcastVars, stable, fatal >>

IncWrite(s) ==
    /\ Running
    /\ pc[s] = "inc"
    /\ NumClients' = tmp[s] + 1
    /\ tmp' = [tmp EXCEPT ![s] = 0]
    /\ pc' = [pc EXCEPT ![s] = "reading"]
    /\ UNCHANGED << hostVars, streamVars, acceptVars, Clients, guard, idx, lineVars,
                    closeVars, bcastVars, stable, fatal >>

\* where a return from tcpClientHandler goes: the deferred closeClient
AfterLoop == "closing"

\* message, err := tp.ReadLine() with a line
ReadLine(s, lines) ==
    /\ Running
    /\ pc[s] = "reading"
    /\ s \notin failed
    /\ \E line \in lines : cur' = [cur EXCEPT ![s] = << line >>]
    /\ wrote' = [wrote EXCEPT ![s] = << >>]
    /\ calls' = [calls EXCEPT ![s] = << >>]
    /\ pc' = [pc EXCEPT ![s] = "dispatch"]
    /\ UNCHANGED << hostVars, streamVars, acceptVars, Clients, NumClients, guard, idx, tmp,
                    closeVars, bcastVars, stable, fatal >>

\* a client writes a line to its connection: the line waits in the stream
\* until the handler reads it
Send(s, line) ==
    /\ Running
    /\ pc[s] \in {"accepted", "start", "inc", "reading", "dispatch", "calling"}
    /\ s \notin failed
    /\ Len(sent[s]) < MaxLines
    /\ sent' = [sent EXCEPT ![s] = Append(@, line)]
    /\ inbox' = [inbox EXCEPT ![s] = Append(@, line)]
    /\ UNCHANGED << hostVars, acceptVars, Clients, NumClients, guard, pc, idx,
                    tmp, lineVars, closeVars, bcastVars, stable, fatal, log,
                    failed >>

\* message, err := tp.ReadLine() on a stream whose lines are kept: the
\* reader hands out the lines in the order they were written
ReadQueued(s) ==
    /\ Running
    /\ pc[s] = "reading"
    /\ s \notin failed
    /\ inbox[s] # << >>
    /\ cur' = [cur EXCEPT ![s] = << Head(inbox[s]) >>]
    /\ inbox' = [inbox EXCEPT ![s] = Tail(@)]
    /\ wrote' = [wrote EXCEPT ![s] = << >>]
    /\ calls' = [calls EXCEPT ![s] = << >>]
    /\ pc' = [pc EXCEPT ![s] = "dispatch"]
    /\ UNCHANGED << hostVars, acceptVars, Clients, NumClients, guard, idx, tmp,
                    closeVars, bcastVars, stable, fatal, sent, log, failed >>

\* tp.ReadLine() fails with an error that is not io.EOF (the connection was
\* reset, say): message is "" and err is not looked at again, so the loop
\* body runs with the empty message.  No line comes from the connection
\* afterwards; a later read fails again or returns io.EOF.
ReadError(s) ==
    /\ Running
    /\ pc[s] = "reading"
    /\ failed' = failed \cup {s}
    /\ cur' = [cur EXCEPT ![s] = << Empty >>]
    /\ wrote' = [wrote EXCEPT ![s] = << >>]
    /\ calls' = [calls EXCEPT ![s] = << >>]
    /\ pc' = [pc EXCEPT ![s] = "dispatch"]
    /\ UNCHANGED << hostVars, acceptVars, Clients, NumClients, guard, idx, tmp,
                    closeVars, bcastVars, stable, fatal, sent, inbox, log >>

\* tp.ReadLine() returns io.EOF: the handler returns
ReadEOF(s) ==
    /\ Running
    /\ pc[s] = "reading"
    /\ inbox[s] = << >>
    /\ pc' = [pc EXCEPT ![s] = AfterLoop]
    /\ UNCHANGED << hostVars, streamVars, acceptVars, Clients, NumClients, guard, idx, tmp,
                    lineVars, closeVars, bcastVars, stable, fatal >>

\* strings.HasPrefix(message, "help")
IsHelpWord(message) == HasPrefix(message, help)

\* quit, bye and exit matched whatever the case of the letters
Lower(c) == IF c = "Q" THEN "q" ELSE IF c = "H" THEN "h" ELSE c
IsExitWordAnyCase(message) ==
    LET m == [i \in DOMAIN message |-> Lower(message[i])]
    IN  HasPrefix(m, quit) \/ HasPrefix(m, bye) \/ HasPrefix(m, exit)

\* the cases quit, bye and exit of the switch, which fall through to exitFlag
IsExitWord(message) ==
    HasPrefix(message, quit) \/ HasPrefix(message, bye) \/ HasPrefix(message, exit)

\* what the loop body does in each of its cases: the lines it writes and how
\* the loop goes on ("continue", "break", or "call" of the registered function)
\* "" == message
OnEmptyLine == [to |-> "continue", out |-> << >>]
\* response := self.Help(); self.HandleSuccess(response, conn)
OnHelp(order) == [to |-> "continue", out |-> << HandleSuccess(Help(order)) >>]
\* exitFlag = true; break
OnExitWord == [to |-> "break", out |-> << >>]
\* json.Unmarshal failed
OnDecodeError(err) == [to |-> "continue", out |-> << DecodeFailure(err) >>]
\* an envelope without a method is answered with an error
OnNoMethodError == [to |-> "continue", out |-> << HandleError("No method") >>]

\* req.Method == ""
OnNoMethod == [to |-> "continue", out |-> << >>]
\* the function is started on its own and the loop goes on without it
OnRegisteredAsync == [to |-> "continue", out |-> << >>]

\* the loop answers for the registered function as well
OnRegisteredAnswered == [to |-> "call", out |-> << HandleSuccess(<< S("ok") >>) >>]

\* function(req, conn)
OnRegistered == [to |-> "call", out |-> << >>]
\* an unknown method ends the loop
OnUnknownMethodBreak ==
    [to |-> "break", out |-> << HandleError("Method not found") >>]

\* self.HandleError(errors.New("Method not found"), conn)
OnUnknownMethod ==
    [to |-> "continue", out |-> << HandleError("Method not found") >>]

\* the body of the read loop for one line
Handle(line, handlers, order) ==
    LET req == Unmarshal(line)
    IN  IF line.text = << >> THEN OnEmptyLine
        ELSE IF IsHelpWord(line.text) THEN OnHelp(order)
        ELSE IF IsExitWord(line.text) THEN OnExitWord
        ELSE IF req.err # "" THEN OnDecodeError(req.err)
        ELSE IF req.Method = "" THEN OnNoMethod
        ELSE IF req.Method = "help" THEN OnHelp(order)
        ELSE IF req.Method \in DOMAIN handlers THEN OnRegistered
        ELSE OnUnknownMethod

\* one pass through the loop body with the line just read
Dispatch(s) ==
    /\ Running
    /\ pc[s] = "dispatch"
    /\ \E order \in Orders(DOMAIN MethodHandlers) :
        LET line == cur[s][1]
            req == Unmarshal(line)
            h == Handle(line, MethodHandlers, order)
        IN  /\ wrote' = [wrote EXCEPT ![s] = @ \o h.out]
            /\ calls' = IF h.to = "call"
                        THEN [calls EXCEPT ![s] = Append(@,
                                 [function |-> MethodHandlers[req.Method],
                                  Method |-> req.Method, Data |-> req.Data,
                                  conn |-> s])]
                        ELSE calls
            /\ pc' = [pc EXCEPT ![s] = IF h.to = "call" THEN "calling"
                                       ELSE IF h.to = "break" THEN AfterLoop
                                       ELSE "reading"]
            /\ log' = IF sent[s] # << >>
                      THEN [log EXCEPT ![s] = Append(@, line)]
                      ELSE log
    /\ UNCHANGED << sent, inbox, failed >>
    /\ UNCHANGED << hostVars, acceptVars, Clients, NumClients, guard, idx, tmp,
                    cur, closed, closes, notified, bcastVars, stable, fatal >>

\* function(req, conn) runs, writes its response and returns
HandlerReturn(s) ==
    /\ Running
    /\ pc[s] = "calling"
    /\ LET c == calls[s][Len(calls[s])]
       IN  wrote' = [wrote EXCEPT ![s] = Append(@, Respond(c.function, c))]
    /\ pc' = [pc EXCEPT ![s] = "reading"]
    /\ UNCHANGED << hostVars, streamVars, acceptVars, Clients, NumClients, guard, idx, tmp,
                    cur, calls, closeVars, bcastVars, stable, fatal >>

(***************************************************************************)
(* Server.closeClient, deferred by tcpClientHandler.  self.NumClients-- is *)
(* a read and a write with no lock around them.                            *)
(***************************************************************************)
CloseDecRead(s) ==
    /\ Running
    /\ pc[s] = "closing"
    /\ closes' = [closes EXCEPT ![s] = @ + 1]
    /\ tmp' = [tmp EXCEPT ![s] = NumClients]
    /\ pc' = [pc EXCEPT ![s] = "dec"]
    /\ cur' = [cur EXCEPT ![s] = << >>]
    /\ wrote' = [wrote EXCEPT ![s] = << >>]
    /\ calls' = [calls EXCEPT ![s] = << >>]
    /\ UNCHANGED << hostVars, streamVars, acceptVars, Clients, NumClients, guard, idx,
                    closed, notified, bcastVars, stable, fatal >>

CloseDecWrite(s) ==
    /\ Running
    /\ pc[s] = "dec"
    /\ NumClients' = tmp[s] - 1
    /\ tmp' = [tmp EXCEPT ![s] = 0]
    /\ pc' = [pc EXCEPT ![s] = "connclose"]
    /\ UNCHANGED << hostVars, streamVars, acceptVars, Clients, guard, idx, lineVars,
                    closeVars, bcastVars, stable, fatal >>

\* conn.Close()
CloseConn(s) ==
    /\ Running
    /\ pc[s] = "connclose"
    /\ closed' = [closed EXCEPT ![s] = TRUE]
    /\ pc' = [pc EXCEPT ![s] = "lock"]
    /\ UNCHANGED << hostVars, streamVars, acceptVars, Clients, NumClients, guard, idx, tmp,
                    lineVars, closes, notified, bcastVars, stable, fatal >>

\* self.guard.Lock(); delete(self.Clients, idx)
CloseDelete(s) ==
    /\ Running
    /\ pc[s] = "lock"
    /\ guard = 0
    /\ guard' = s
    /\ Clients' = Delete(Clients, idx[s])
    /\ MapWrite(IF idx[s] \in DOMAIN Clients THEN {Clients[idx[s]]} ELSE {})
    /\ pc' = [pc EXCEPT ![s] = "unlock"]
    /\ UNCHANGED << hostVars, streamVars, acceptVars, NumClients, idx, tmp, lineVars,
                    closeVars, bcastVars >>

\* self.guard.Unlock();
\* if nil != self.OnDisconnect { self.OnDisconnect(conn.RemoteAddr().String()) }
CloseUnlock(s) ==
    /\ Running
    /\ pc[s] = "unlock"
    /\ guard' = 0
    /\ notified' = IF OnDisconnect # "nil"
                   THEN [notified EXCEPT ![RemoteAddr(s)] = @ + 1]
                   ELSE notified
    /\ pc' = [pc EXCEPT ![s] = "done"]
    /\ UNCHANGED << hostVars, streamVars, acceptVars, Clients, NumClients, idx, tmp,
                    lineVars, closed, closes, bcastVars, stable, fatal >>

(***************************************************************************)
(* Server.Broadcast, called by the host: a range over self.Clients with    *)
(* no lock held.  A range produces every entry that is in the map from the *)
(* start to the end of the loop exactly once; an entry inserted meanwhile  *)
(* is produced or skipped, an entry deleted before it is reached is not    *)
(* produced.                                                               *)
(***************************************************************************)
Messages == {"hello"}

BroadcastCall(message) ==
    /\ Running
    /\ bpc \in {"idle", "done"}
    /\ bcalls < MaxBroadcasts
    /\ bcalls' = bcalls + 1
    /\ bmsg' = message
    /\ stable' = { Clients[id] : id \in DOMAIN Clients }
    /\ visited' = {}
    /\ delivered' = [s \in Socks |-> << >>]
    /\ bpc' = "iter"
    /\ UNCHANGED << hostVars, streamVars, acceptVars, Clients, NumClients, guard, pc, idx,
                    tmp, lineVars, closeVars, fatal >>

\* conn.Write([]byte(fmt.Sprintf("%v\n", message))); the result is dropped,
\* and a write to a closed connection fails
BroadcastWrite(id) ==
    /\ Running
    /\ bpc = "iter"
    /\ id \in DOMAIN Clients \ visited
    /\ visited' = visited \cup {id}
    /\ delivered' = IF closed[Clients[id]] THEN delivered
                    ELSE [delivered EXCEPT ![Clients[id]] =
                             Append(@, << R(bmsg), NL >>)]
    /\ UNCHANGED << hostVars, streamVars, acceptVars, Clients, NumClients, guard, pc, idx,
                    tmp, lineVars, closeVars, bpc, bmsg, bcalls, stable,
                    fatal >>

\* the range is over: Broadcast returns, and its frame is gone
BroadcastReturn ==
    /\ Running
    /\ bpc = "iter"
    /\ \A id \in DOMAIN Clients : Clients[id] \in stable => id \in visited
    /\ bpc' = "done"
    /\ visited' = {}
    /\ stable' = {}
    /\ delivered' = [s \in Socks |-> << >>]
    /\ UNCHANGED << hostVars, streamVars, acceptVars, Clients, NumClients, guard, pc, idx,
                    tmp, lineVars, closeVars, bmsg, bcalls, fatal >>

(***************************************************************************)
(* Specifications.  Spec: a host that registers no method, the accept     *)
(* loop, MaxConns handlers on the lines of CoreLines, and Broadcast.       *)
(* ProtoSpec: a host that registers its methods, the accept loop and       *)
(* ProtoConns handlers on every line of AllLines.  RegSpec: the host       *)
(* registering any name with any function, then Start.                     *)
(***************************************************************************)
Next ==
    \/ Start
    \/ Accept(MaxConns)
    \/ AcceptError
    \/ AcceptInsert
    \/ AcceptUnlock
    \/ \E s \in Socks : IncRead(s)
    \/ \E s \in Socks : IncWrite(s)
    \/ \E s \in Socks : ReadLine(s, CoreLines)
    \/ \E s \in Socks : ReadEOF(s)
    \/ \E s \in Socks : Dispatch(s)
    \/ \E s \in Socks : CloseDecRead(s)
    \/ \E s \in Socks : CloseDecWrite(s)
    \/ \E s \in Socks : CloseConn(s)
    \/ \E s \in Socks : CloseDelete(s)
    \/ \E s \in Socks : CloseUnlock(s)
    \/ \E m \in Messages : BroadcastCall(m)
    \/ \E id \in DOMAIN Clients : BroadcastWrite(id)
    \/ BroadcastReturn

Spec == Init /\ [][Next]_vars

ProtoNext ==
    \/ \E r \in ProtoMethods : RegisterMethod(r[1], r[2])
    \/ Start
    \/ Accept(ProtoConns)
    \/ AcceptError
    \/ AcceptInsert
    \/ AcceptUnlock
    \/ \E s \in Socks : IncRead(s)
    \/ \E s \in Socks : IncWrite(s)
    \/ \E s \in Socks : ReadLine(s, AllLines)
    \/ \E s \in Socks : ReadEOF(s)
    \/ \E s \in Socks : Dispatch(s)
    \/ \E s \in Socks : HandlerReturn(s)
    \/ \E s \in Socks : CloseDecRead(s)
    \/ \E s \in Socks : CloseDecWrite(s)
    \/ \E s \in Socks : CloseConn(s)
    \/ \E s \in Socks : CloseDelete(s)
    \/ \E s \in Socks : CloseUnlock(s)

ProtoSpec == Init /\ [][ProtoNext]_vars

RegNext ==
    \/ \E m \in ProtoNames \cup {"help"}, f \in Functions : RegisterMethod(m, f)
    \/ Start

RegSpec == Init /\ [][RegNext]_vars

\* OrderSpec: one method registered, and clients whose lines wait in the
\* stream of their connection until the handler reads them
OrderNext ==
    \/ \E r \in OrderMethods : RegisterMethod(r[1], r[2])
    \/ Start
    \/ Accept(ProtoConns)
    \/ AcceptError
    \/ AcceptInsert
    \/ AcceptUnlock
    \/ \E s \in Socks : IncRead(s)
    \/ \E s \in Socks : IncWrite(s)
    \/ \E s \in Socks, line \in OrderLines : Send(s, line)
    \/ \E s \in Socks : ReadQueued(s)
    \/ \E s \in Socks : ReadEOF(s)
    \/ \E s \in Socks : Dispatch(s)
    \/ \E s \in Socks : HandlerReturn(s)
    \/ \E s \in Socks : CloseDecRead(s)
    \/ \E s \in Socks : CloseDecWrite(s)
    \/ \E s \in Socks : CloseConn(s)
    \/ \E s \in Socks : CloseDelete(s)
    \/ \E s \in Socks : CloseUnlock(s)

OrderSpec == Init /\ [][OrderNext]_vars

\* ConnSpec: the accept loop and MaxConns handlers, with no Broadcast
ConnNext ==
    \/ Start
    \/ Accept(MaxConns)
    \/ AcceptError
    \/ AcceptInsert
    \/ AcceptUnlock
    \/ \E s \in Socks : IncRead(s)
    \/ \E s \in Socks : IncWrite(s)
    \/ \E s \in Socks : ReadLine(s, CoreLines)
    \/ \E s \in Socks : ReadEOF(s)
    \/ \E s \in Socks : Dispatch(s)
    \/ \E s \in Socks : CloseDecRead(s)
    \/ \E s \in Socks : CloseDecWrite(s)
    \/ \E s \in Socks : CloseConn(s)
    \/ \E s \in Socks : CloseDelete(s)
    \/ \E s \in Socks : CloseUnlock(s)

ConnSpec == Init /\ [][ConnNext]_vars

\* LiveSpec: ConnSpec with reads that fail, under fair scheduling.  Every
\* goroutine that can take a step takes one in the end; a read on a
\* connection that has failed returns at once (with an error or io.EOF, as
\* the connection has it); sync.Mutex lets no Lock() starve.
LiveNext ==
    \/ ConnNext
    \/ \E s \in Socks : ReadError(s)

HandlerStep(s) ==
    \/ IncRead(s)
    \/ IncWrite(s)
    \/ s \in failed /\ (ReadError(s) \/ ReadEOF(s))
    \/ Dispatch(s)
    \/ CloseDecRead(s)
    \/ CloseDecWrite(s)
    \/ CloseConn(s)
    \/ CloseUnlock(s)

Fairness ==
    /\ WF_vars(AcceptInsert \/ AcceptUnlock)
    /\ \A s \in Socks : WF_vars(HandlerStep(s)) /\ SF_vars(CloseDelete(s))

LiveSpec == Init /\ [][LiveNext]_vars /\ Fairness

(***************************************************************************)
(* Reading a written line back, as a client does: is it one JSON object    *)
(* followed by a newline, and what are its members.                        *)
(***************************************************************************)
RECURSIVE ParseValue(_, _), ParseMembers(_, _), ParseElements(_, _)
\* the index after the JSON value that starts at s[i]; 0 when there is none
ParseValue(s, i) ==
    IF i > Len(s) THEN 0
    ELSE IF s[i].t \in {"s", "raw"} THEN i + 1
    ELSE IF s[i] = P("{")
         THEN IF i + 1 <= Len(s) /\ s[i + 1] = P("}") THEN i + 2
              ELSE ParseMembers(s, i + 1)
    ELSE IF s[i] = P("[")
         THEN IF i + 1 <= Len(s) /\ s[i + 1] = P("]") THEN i + 2
              ELSE ParseElements(s, i + 1)
    ELSE 0
\* members "key": value separated by commas, up to the closing brace
ParseMembers(s, i) ==
    IF i + 1 > Len(s) \/ s[i].t # "s" \/ s[i + 1] # P(":") THEN 0
    ELSE LET j == ParseValue(s, i + 2)
         IN  IF j = 0 \/ j > Len(s) THEN 0
             ELSE IF s[j] = P(",") THEN ParseMembers(s, j + 1)
             ELSE IF s[j] = P("}") THEN j + 1
             ELSE 0
\* elements separated by commas, up to the closing bracket
ParseElements(s, i) ==
    LET j == ParseValue(s, i)
    IN  IF j = 0 \/ j > Len(s) THEN 0
        ELSE IF s[j] = P(",") THEN ParseElements(s, j + 1)
        ELSE IF s[j] = P("]") THEN j + 1
        ELSE 0

\* s is exactly one JSON value
IsJson(s) == Len(s) > 0 /\ ParseValue(s, 1) = Len(s) + 1

\* the line without its newline
Body(line) == SubSeq(line, 1, Len(line) - 1)

\* one JSON object and then the newline
IsObjectLine(line) ==
    /\ Len(line) >= 3
    /\ line[Len(line)] = NL
    /\ line[1] = P("{")
    /\ IsJson(Body(line))

RECURSIVE MembersFrom(_, _)
\* the members of a well-formed object from the key at s[i] on
MembersFrom(s, i) ==
    LET j == ParseValue(s, i + 2)
    IN  << [key |-> s[i].v, value |-> SubSeq(s, i + 2, j - 1)] >>
           \o (IF s[j] = P(",") THEN MembersFrom(s, j + 1) ELSE << >>)
Members(line) ==
    IF line[2] = P("}") THEN << >> ELSE MembersFrom(Body(line), 2)

\* {"status": "ok", "data": <value>}
IsOkResponse(line) ==
    /\ IsObjectLine(line)
    /\ LET m == Members(line)
       IN  /\ Len(m) = 2
           /\ m[1] = [key |-> "status", value |-> << S("ok") >>]
           /\ m[2].key = "data"
DataOf(line) == Members(line)[2].value

\* {"status": "error", "error": "<message>"}
IsErrorResponse(line) ==
    /\ IsObjectLine(line)
    /\ LET m == Members(line)
       IN  /\ Len(m) = 2
           /\ m[1] = [key |-> "status", value |-> << S("error") >>]
           /\ m[2].key = "error"
           /\ Len(m[2].value) = 1
           /\ m[2].value[1].t = "s"
ErrorOf(line) == Members(line)[2].value[1].v

\* the names in the list of {"methods": [...]}; << >> when data is not that
MethodsOf(data) ==
    IF /\ IsJson(data)
       /\ Len(data) >= 7
       /\ SubSeq(data, 1, 4) = << P("{"), S("methods"), P(":"), P("[") >>
       /\ ParseValue(data, 4) = Len(data)
       /\ \A i \in 1 .. (Len(data) - 5) \div 2 : data[3 + 2 * i].t = "s"
    THEN [i \in 1 .. (Len(data) - 5) \div 2 |-> data[3 + 2 * i].v]
    ELSE << >>

(***************************************************************************)
(* Where a handler is.                                                     *)
(***************************************************************************)
\* the handler is in its read loop, or has left it and not yet begun
\* closeClient
InLoop(s) == pc[s] \in {"reading", "dispatch", "calling", "closing"}
\* the handler has dealt with the line cur[s] and gone on
Handled(s) == cur[s] # << >> /\ pc[s] \in {"reading", "closing"}
\* the connection is in Clients
Registered(s) == \E id \in DOMAIN Clients : Clients[id] = s
\* the step of handler s that deals with the line it has read
Dispatching(s) == pc[s] = "dispatch" /\ pc'[s] # "dispatch"

\* m begins with the word w, letter for letter
Begins(m, w) == Len(w) <= Len(m) /\ SubSeq(m, 1, Len(w)) = w
BeginsExit(m) == Begins(m, quit) \/ Begins(m, bye) \/ Begins(m, exit)

(***************************************************************************)
(* C1.  Whenever no connection is in the middle of being accepted or       *)
(* closed (every accepted connection's handler has made its increment and  *)
(* not begun closeClient, or has finished closeClient), GetNumClients() is *)
(* the number of connections whose handler has not begun closeClient.      *)
(* Checked under Spec, where ++ and -- are a read and a write.             *)
(***************************************************************************)
Settled == \A s \in Socks : pc[s] = "free" \/ InLoop(s) \/ pc[s] = "done"

C1_CountMatchesOpenConnections ==
    Settled => GetNumClients = Cardinality({ s \in Socks : InLoop(s) })

(***************************************************************************)
(* C2.  For every accepted connection closeClient runs exactly once,       *)
(* whether the loop ended by end-of-stream or by quit/bye/exit: once its   *)
(* handler is done the connection is out of Clients and OnDisconnect, when *)
(* set, was called exactly once with its address, and never while the      *)
(* handler is still in its loop; and the write of closeClient's            *)
(* NumClients-- lowers the count by exactly 1.                             *)
(***************************************************************************)
C2_Closed ==
    \A s \in Socks :
        /\ closes[s] <= 1
        /\ InLoop(s) => closes[s] = 0 /\ notified[RemoteAddr(s)] = 0
        /\ pc[s] = "done" =>
              /\ closes[s] = 1
              /\ ~Registered(s)
              /\ notified[RemoteAddr(s)] = IF OnDisconnect = "nil" THEN 0 ELSE 1

C2_Decrement ==
    \A s \in Socks :
        pc[s] = "dec" /\ pc'[s] # "dec" => NumClients' = NumClients - 1

C2_ClosesExactlyOnce == []C2_Closed /\ [][C2_Decrement]_vars

(***************************************************************************)
(* C3.  A line that decodes to an envelope whose method is not empty, not  *)
(* "help" and not a key of MethodHandlers gets exactly one response, the   *)
(* error response with the message "Method not found"; no registered       *)
(* function is invoked, the connection stays open and registered, and the  *)
(* handler is back at reading the next line.                               *)
(***************************************************************************)
UnknownMethod(line) ==
    /\ line.kind = "json"
    /\ Unmarshal(line).err = ""
    /\ Unmarshal(line).Method \notin {"", "help"} \cup DOMAIN MethodHandlers

C3_Step ==
    \A s \in Socks :
        Dispatching(s) /\ UnknownMethod(cur[s][1]) =>
            /\ pc'[s] = "reading"
            /\ Len(wrote'[s]) = 1
            /\ IsErrorResponse(wrote'[s][1])
            /\ ErrorOf(wrote'[s][1]) = "Method not found"
            /\ calls'[s] = << >>
            /\ ~closed'[s]
            /\ closes'[s] = 0
            /\ Clients' = Clients

C3_UnknownMethodAnswered == [][C3_Step]_vars

\* "ping" was sent while only "echo" is registered, and the handler went on
C3_Witness ==
    \E s \in Socks :
        /\ pc[s] = "reading"
        /\ cur[s] = << J("ping", "", "") >>
        /\ DOMAIN MethodHandlers = {"echo"}
        /\ wrote[s] = << HandleError("Method not found") >>
        /\ ~closed[s] /\ Registered(s)

(***************************************************************************)
(* C4.  A line that is not empty, begins with no control word and fails to *)
(* decode gets exactly one response line, of the error form                *)
(* {"status": "error", "error": "<message>"} and a newline, and the        *)
(* connection stays open and registered.                                   *)
(***************************************************************************)
DecodeFails(line) ==
    /\ line.text # << >>
    /\ ~Begins(line.text, help)
    /\ ~BeginsExit(line.text)
    /\ Unmarshal(line).err # ""

C4_DecodeErrorAnswered ==
    \A s \in Socks :
        Handled(s) /\ DecodeFails(cur[s][1]) =>
            /\ Len(wrote[s]) = 1
            /\ IsErrorResponse(wrote[s][1])
            /\ ~closed[s]
            /\ Registered(s)

(***************************************************************************)
(* C5.  RegisterMethod("help", h) returns an error and leaves the entries  *)
(* of MethodHandlers as they were, so "help" is never a key; with any      *)
(* other name it returns nil and the name is bound to the function given.  *)
(* Checked under RegSpec.                                                  *)
(***************************************************************************)
C5_Registry ==
    /\ "help" \notin DOMAIN MethodHandlers
    /\ lastRegister.err # "" =>
          IF lastRegister.method = "help"
          THEN lastRegister.err = "Method not allowed"
          ELSE /\ lastRegister.err = "nil"
               /\ lastRegister.method \in DOMAIN MethodHandlers
               /\ MethodHandlers[lastRegister.method] = lastRegister.function

\* a step of the host before Start is a RegisterMethod call
C5_Step ==
    apc = "idle" /\ apc' = "idle" /\ lastRegister'.method = "help"
        => MethodHandlers' = MethodHandlers

C5_HelpIsReserved == []C5_Registry /\ [][C5_Step]_vars

\* "help" was refused with two methods registered before it
C5_Witness ==
    /\ lastRegister.method = "help"
    /\ lastRegister.err = "Method not allowed"
    /\ DOMAIN MethodHandlers = {"ping", "echo"}

(***************************************************************************)
(* C6.  When a Broadcast(m) call ends, every connection that was in        *)
(* Clients during the whole call has been reached by the range, and has m  *)
(* and a newline written to it exactly once unless it is closed (a failed  *)
(* write to one connection stops nothing); and once Broadcast has returned *)
(* that call writes nothing more, to a connection accepted later or to any *)
(* other.  The call ends when it returns or when the process dies in it.   *)
(***************************************************************************)
Reached(s) == \E id \in visited : id \in DOMAIN Clients /\ Clients[id] = s

AllDelivered ==
    \A s \in stable :
        /\ Reached(s)
        /\ Len(delivered[s]) <= 1
        /\ ~closed[s] => delivered[s] = << << R(bmsg), NL >> >>

C6_AtAbort == bpc = "iter" /\ fatal => AllDelivered
C6_AtReturn == bpc = "iter" /\ bpc' = "done" => AllDelivered
C6_AfterReturn == bpc = "done" /\ bpc' = "done" => delivered' = delivered

C6_BroadcastReachesAll ==
    []C6_AtAbort /\ [][C6_AtReturn]_vars /\ [][C6_AfterReturn]_vars

\* the same without the end by abort: what the range does when the process
\* survives the unsynchronised access
C6_WhenItReturns == [][C6_AtReturn]_vars /\ [][C6_AfterReturn]_vars

(***************************************************************************)
(* C7.  Every line a handler reads gets exactly one response line, an ok   *)
(* or an error object, except in two cases, which get none: the line is    *)
(* empty, or it decodes to an envelope whose method is empty.              *)
(***************************************************************************)
Silent(line) ==
    \/ line.text = << >>
    \/ Unmarshal(line).err = "" /\ Unmarshal(line).Method = ""

C7_OneResponsePerLine ==
    \A s \in Socks :
        Handled(s) =>
            IF Silent(cur[s][1]) THEN wrote[s] = << >>
            ELSE /\ Len(wrote[s]) = 1
                 /\ IsOkResponse(wrote[s][1]) \/ IsErrorResponse(wrote[s][1])

(***************************************************************************)
(* C8.  Round trip of the payload.  As claimed: a line with method "echo"  *)
(* and a value under the key "payload", "echo" being registered as the     *)
(* function that answers with the envelope's Data, gets one ok response    *)
(* whose data is the value sent.  As amended: the same for a value under   *)
(* the key "data" (in any case of its letters).                            *)
(***************************************************************************)
EchoRegistered ==
    "echo" \in DOMAIN MethodHandlers /\ MethodHandlers["echo"] = "Echo"

RoundTrip(s) ==
    /\ Len(wrote[s]) = 1
    /\ IsOkResponse(wrote[s][1])
    /\ DataOf(wrote[s][1]) = << R(cur[s][1].val) >>

C9_Step ==
    \A s \in Socks :
        Dispatching(s) =>
            LET m == cur[s][1].text
            IN  /\ BeginsExit(m) =>
                      pc'[s] = "closing" /\ wrote'[s] = << >> /\ calls'[s] = << >>
                /\ Begins(m, help) =>
                      /\ pc'[s] = "reading"
                      /\ Len(wrote'[s]) = 1
                      /\ IsOkResponse(wrote'[s][1])
                /\ m # << >> /\ ~BeginsExit(m) /\ ~Begins(m, help) =>
                      /\ pc'[s] # "closing"
                      /\ Unmarshal(cur[s][1]).err # "" =>
                            Len(wrote'[s]) = 1 /\ ~IsOkResponse(wrote'[s][1])

C9_NoLaterLine ==
    \A s \in Socks :
        pc[s] \in {"closing", "dec", "connclose", "lock", "unlock", "done"}
            => pc'[s] \notin {"reading", "dispatch", "calling"}

C9_ControlWords == [][C9_Step]_vars /\ [][C9_NoLaterLine]_vars

\* "quitx" ended the loop with nothing written
C9_Witness ==
    \E s \in Socks :
        /\ pc[s] = "closing"
        /\ cur[s] = << T(quit \o <<"x">>) >>
        /\ wrote[s] = << >>
        /\ calls[s] = << >>

(***************************************************************************)
(* C10.  A help request, the control word or an envelope with method       *)
(* "help", gets exactly one ok response whose data is {"methods": [...]}   *)
(* listing "help" and every key of MethodHandlers, each once and nothing   *)
(* else, and the handler reads on with the connection open.                *)
(***************************************************************************)
HelpRequest(line) ==
    \/ Begins(line.text, help)
    \/ line.kind = "json" /\ line.method = "help"

C10_Step ==
    \A s \in Socks :
        Dispatching(s) /\ HelpRequest(cur[s][1]) =>
            /\ pc'[s] = "reading"
            /\ ~closed'[s]
            /\ Len(wrote'[s]) = 1
            /\ IsOkResponse(wrote'[s][1])
            /\ LET ms == MethodsOf(DataOf(wrote'[s][1]))
               IN  /\ { ms[i] : i \in DOMAIN ms } = {"help"} \cup DOMAIN MethodHandlers
                   /\ Len(ms) = Cardinality({"help"} \cup DOMAIN MethodHandlers)

C10_HelpListsMethods == [][C10_Step]_vars

\* {"method":"help"} was answered with two methods registered
C10_Witness ==
    \E s \in Socks :
        /\ pc[s] = "reading"
        /\ cur[s] = << J("help", "", "") >>
        /\ DOMAIN MethodHandlers = {"ping", "echo"}
        /\ Len(wrote[s]) = 1
        /\ Len(MethodsOf(DataOf(wrote[s][1]))) = 3

(***************************************************************************)
(* C11.  Within one connection the lines are dispatched in the order they  *)
(* arrived and one at a time: the lines dispatched so far, the line in     *)
(* hand and the lines still unread make up the lines sent, in that order;  *)
(* while a line is in hand (up to the return of a registered function) no  *)
(* other line is taken; and when the handler is back at reading, a         *)
(* registered function invoked for the line before was invoked once and    *)
(* has written its response.  Checked under OrderSpec.                     *)
(***************************************************************************)
\* the line the handler has read and not yet dispatched
InHand(s) == IF pc[s] = "dispatch" THEN cur[s] ELSE << >>

C11_InOrder == \A s \in Socks : sent[s] = log[s] \o InHand(s) \o inbox[s]

C11_Finished ==
    \A s \in Socks :
        /\ pc[s] = "reading"
        /\ cur[s] # << >>
        /\ Unmarshal(cur[s][1]).Method \in DOMAIN MethodHandlers
        => /\ Len(calls[s]) = 1
           /\ wrote[s] = << Respond(calls[s][1].function, calls[s][1]) >>

C11_NoReadAhead ==
    \A s \in Socks :
        pc[s] \in {"dispatch", "calling"} =>
            /\ cur'[s] = cur[s]
            /\ Len(inbox'[s]) >= Len(inbox[s])
            /\ pc[s] = "calling" => pc'[s] \in {"calling", "reading"}

C11_InArrivalOrder ==
    []C11_InOrder /\ []C11_Finished /\ [][C11_NoReadAhead]_vars

\* two different lines were sent and both dispatched, in the order sent
C11_Witness ==
    \E s \in Socks :
        /\ pc[s] = "reading"
        /\ sent[s] = << J("missing", "", ""), J("ping", "", "") >>
        /\ log[s] = sent[s]
        /\ wrote[s] = << HandleSuccess(<< S("pong") >>) >>

(***************************************************************************)
(* C12.  No reachable state has Broadcast ranging over Clients while an    *)
(* insertion by the accept loop or a deletion by closeClient is in         *)
(* progress, that is, while Start or a handler holds the guard around its  *)
(* write to the map; and no step writes to the map while the range runs.   *)
(***************************************************************************)
C12_Exclusion == ~(bpc = "iter" /\ guard # 0)

C12_NoWriteInRange == bpc = "iter" => Clients' = Clients

C12_BroadcastLocked == []C12_Exclusion /\ [][C12_NoWriteInRange]_vars

(***************************************************************************)
(* C13.  Within one Start the identifiers are 1, 2, 3, ... in accept       *)
(* order: 0 is never a key of Clients, every insertion uses a key one      *)
(* above the last, greater than every identifier given out before (those   *)
(* of removed connections included) and not in Clients, the k-th accepted  *)
(* connection gets k, and no two connections have the same identifier.     *)
(* Checked under ConnSpec.                                                 *)
(***************************************************************************)
C13_Ids ==
    /\ \A id \in DOMAIN Clients : 1 <= id /\ id <= counter
    /\ \A id1, id2 \in DOMAIN Clients : Clients[id1] = Clients[id2] => id1 = id2
    /\ \A s \in Socks : idx[s] # 0 => 1 <= idx[s] /\ idx[s] <= counter
    /\ \A s, u \in Socks : s # u /\ idx[s] # 0 => idx[s] # idx[u]

C13_Assign ==
    apc = "lock" /\ apc' = "unlock" =>
        /\ counter' = counter + 1
        /\ counter' = aconn
        /\ counter' \notin DOMAIN Clients
        /\ DOMAIN Clients' = DOMAIN Clients \cup {counter'}
        /\ Clients'[counter'] = aconn
        /\ \A id \in DOMAIN Clients : Clients'[id] = Clients[id] /\ id < counter'
        /\ \A s \in Socks : idx[s] < counter'

C13_IdsNeverReused == []C13_Ids /\ [][C13_Assign]_vars

\* the first connection is gone from Clients and the second one got 2
C13_Witness ==
    /\ pc[1] = "done"
    /\ idx[1] = 1
    /\ DOMAIN Clients = {2}
    /\ Clients[2] = 2
    /\ idx[2] = 2

(***************************************************************************)
(* C14.  A line that decodes to an envelope whose method is a key of       *)
(* MethodHandlers: the function registered under it is invoked exactly     *)
(* once, by the connection's own handler, with the decoded envelope and    *)
(* the connection; the loop itself writes nothing for the line; the        *)
(* handler does nothing else until the function returns, and then it is    *)
(* back at reading with only what the function wrote.                      *)
(***************************************************************************)
RegisteredMethod(line) ==
    /\ line.kind = "json"
    /\ Unmarshal(line).err = ""
    /\ Unmarshal(line).Method \in DOMAIN MethodHandlers

C14_Invoke ==
    \A s \in Socks :
        Dispatching(s) /\ RegisteredMethod(cur[s][1]) =>
            LET req == Unmarshal(cur[s][1])
            IN  /\ pc'[s] = "calling"
                /\ calls'[s] = << [function |-> MethodHandlers[req.Method],
                                   Method |-> req.Method, Data |-> req.Data,
                                   conn |-> s] >>
                /\ wrote'[s] = << >>

C14_Return ==
    \A s \in Socks :
        pc[s] = "calling" =>
            /\ pc'[s] \in {"calling", "reading"}
            /\ calls'[s] = calls[s]
            /\ cur'[s] = cur[s]
            /\ pc'[s] = "reading" =>
                  wrote'[s] = << Respond(calls[s][1].function, calls[s][1]) >>

C14_Once ==
    \A s \in Socks :
        /\ Len(calls[s]) <= 1
        /\ pc[s] = "calling" => Len(calls[s]) = 1
        /\ Handled(s) /\ RegisteredMethod(cur[s][1]) => Len(calls[s]) = 1

C14_HandlerInvokedOnce ==
    []C14_Once /\ [][C14_Invoke]_vars /\ [][C14_Return]_vars

\* "echo" was invoked with the Data of the line and has returned
C14_Witness ==
    \E s \in Socks :
        /\ pc[s] = "reading"
        /\ cur[s] = << J("echo", "Data", "{\"a\":1}") >>
        /\ calls[s] = << [function |-> "Echo", Method |-> "echo",
                          Data |-> "{\"a\":1}", conn |-> s] >>
        /\ Len(wrote[s]) = 1

(***************************************************************************)
(* C15.  Dispatching an empty line, or a line that decodes to an envelope  *)
(* whose method is empty, changes nothing: nothing is written, no function *)
(* is invoked, Clients, the close state of the connection, NumClients and  *)
(* the method table are as before, and the handler is back at reading.     *)
(***************************************************************************)
C15_Step ==
    \A s \in Socks :
        Dispatching(s) /\ Silent(cur[s][1]) =>
            /\ pc'[s] = "reading"
            /\ wrote'[s] = << >>
            /\ calls'[s] = << >>
            /\ Clients' = Clients
            /\ NumClients' = NumClients
            /\ closed' = closed
            /\ closes' = closes
            /\ notified' = notified
            /\ MethodHandlers' = MethodHandlers

C15_EmptyChangesNothing == [][C15_Step]_vars

\* {"method":""} was read and dropped, the connection open and registered
C15_Witness ==
    \E s \in Socks :
        /\ pc[s] = "reading"
        /\ cur[s] = << J("", "", "") >>
        /\ wrote[s] = << >>
        /\ calls[s] = << >>
        /\ ~closed[s]
        /\ Registered(s)

(***************************************************************************)
(* C16.  A connection is in Clients before its handler runs, and stays     *)
(* there until its own closeClient deletes it; and while the process runs  *)
(* the accept loop waits for no handler and for no Broadcast: whatever the *)
(* handlers are doing, and with a Broadcast in its range or not, Start can *)
(* take its next step, except that at self.guard.Lock() it may have to let *)
(* a closeClient that holds the guard around its delete unlock first,      *)
(* which that closeClient can do at once.                                  *)
(***************************************************************************)
C16_InsertedFirst ==
    \A s \in Socks :
        pc[s] \in {"start", "inc", "reading", "dispatch", "calling", "closing",
                   "dec", "connclose", "lock"}
            => idx[s] \in DOMAIN Clients /\ Clients[idx[s]] = s

C16_NeverWaits ==
    Running =>
        /\ apc = "accept" /\ naccepted < MaxConns => ENABLED Accept(MaxConns)
        /\ apc = "lock" =>
              \/ ENABLED AcceptInsert
              \/ \E s \in Socks :
                    guard = s /\ pc[s] = "unlock" /\ ENABLED CloseUnlock(s)
        /\ apc = "unlock" => ENABLED AcceptUnlock

C17_RemovedBeforeClosed == \A s \in Socks : closed[s] => ~Registered(s)

C17_NotifiedLast ==
    \A s \in Socks :
        notified[RemoteAddr(s)] > 0 =>
            closed[s] /\ ~Registered(s) /\ pc[s] = "done"

C17_CloseOrder == C17_RemovedBeforeClosed /\ C17_NotifiedLast

(***************************************************************************)
(* C18.  An accept error ends the accept loop for good: once Start has     *)
(* returned nothing is accepted or put into Clients any more.  The step    *)
(* itself touches no connection, and afterwards every handler goes on as   *)
(* before: one that waits for a line can get a line or the end of its      *)
(* stream and is still in Clients, one with a line in hand can dispatch    *)
(* it, one in closeClient can go on (at the guard it may have to let       *)
(* another closeClient unlock first), and a handler that is done ran       *)
(* closeClient exactly once.  Checked under ConnSpec.                      *)
(***************************************************************************)
C18_LoopEnded ==
    apc = "returned" =>
        /\ apc' = "returned"
        /\ naccepted' = naccepted
        /\ counter' = counter
        /\ DOMAIN Clients' \subseteq DOMAIN Clients

C18_ErrorStep ==
    apc = "accept" /\ apc' = "returned" =>
        UNCHANGED << Clients, NumClients, pc, idx, closed, closes, notified,
                     cur, wrote, calls, guard >>

C18_Unaffected ==
    apc = "returned" =>
        \A s \in Socks :
            /\ pc[s] \notin {"accepted"}
            /\ closes[s] <= 1
            /\ pc[s] = "start" => ENABLED IncRead(s)
            /\ pc[s] = "inc" => ENABLED IncWrite(s)
            /\ pc[s] = "reading" =>
                  /\ ENABLED ReadLine(s, CoreLines)
                  /\ ENABLED ReadEOF(s)
                  /\ Registered(s) /\ ~closed[s] /\ closes[s] = 0
            /\ pc[s] = "dispatch" => ENABLED Dispatch(s) /\ Registered(s)
            /\ pc[s] = "closing" => ENABLED CloseDecRead(s) /\ closes[s] = 0
            /\ pc[s] = "dec" => ENABLED CloseDecWrite(s)
            /\ pc[s] = "connclose" => ENABLED CloseConn(s)
            /\ pc[s] = "lock" =>
                  \/ ENABLED CloseDelete(s)
                  \/ \E u \in Socks : guard = u /\ ENABLED CloseUnlock(u)
            /\ pc[s] = "unlock" => ENABLED CloseUnlock(s)
            /\ pc[s] = "done" => closes[s] = 1 /\ closed[s] /\ ~Registered(s)

C18_AcceptErrorEndsLoop ==
    []C18_Unaffected /\ [][C18_LoopEnded]_vars /\ [][C18_ErrorStep]_vars

\* Start has returned on an accept error; one connection has been closed
\* since, the other has a request in hand
C18_Witness ==
    /\ apc = "returned"
    /\ naccepted = 2
    /\ pc[1] = "done" /\ closes[1] = 1
    /\ pc[2] = "dispatch" /\ cur[2] = << J("ping", "", "") >>
    /\ DOMAIN Clients = {2}

(***************************************************************************)
(* C19.  A connection whose read has failed, with io.EOF or with any other *)
(* error, leaves the read loop and goes through closeClient: under fair    *)
(* scheduling its handler eventually is done and the connection is out of  *)
(* Clients.  (A handler is at "closing" when its read returned io.EOF or   *)
(* the line was quit, bye or exit.)  Checked under LiveSpec.               *)
(***************************************************************************)
Ended(s) == pc[s] = "done" /\ ~Registered(s)

C19_ReadFailureEndsLoop ==
    \A s \in Socks : (s \in failed \/ pc[s] = "closing") ~> Ended(s)

\* the same for the end of the stream alone
C19_AfterEOF == \A s \in Socks : pc[s] = "closing" ~> Ended(s)

(***************************************************************************)
(* C20.  In every reachable state GetNumClients() is at least 0 and at     *)
(* most the number of entries of Clients.                                  *)
(***************************************************************************)
C20_NotNegative == 0 <= GetNumClients

C20_AtMostRegistered == GetNumClients <= Cardinality(DOMAIN Clients)

C20_CountWithinBounds == C20_NotNegative /\ C20_AtMostRegistered

====
